---- MODULE Spec2Model ----
(***************************************************************************)
(* Model of the Calls-Aggregator bot (src/main.py): the channel store      *)
(* (channels.json), the filter evaluator, the call-template formatter and  *)
(* the poll_channels job that fetches posts, advances the per-channel       *)
(* watermark (last_post_id) and forwards matching posts to the sink.       *)
(*                                                                         *)
(* Texts are sequences of lexical tokens (strings); Python's substring     *)
(* test `a in b` is contiguous-subsequence containment on tokens.  The     *)
(* glyphs of the source are written in ASCII: TIMER for the stopwatch,     *)
(* RED_CIRCLE, GREEN_CIRCLE, RED_SQUARE for the three template tags.       *)
(***************************************************************************)
EXTENDS Integers, Sequences, FiniteSets, TLC

(* ------------------------------------------------------------------ *)
(* Bounds                                                             *)
(* ------------------------------------------------------------------ *)

\* Post identifiers the content source hands out are 1..MaxId.
MaxId == 3

PostIds == 1..MaxId

\* Operator commands handled in one behaviour.
MaxCommands == 2

\* The most posts a channel's public page shows to the weekly summary.
MaxPage == 2

\* Python's None (call_template of a fresh channel, format_call_message's
\* "no output"): the empty sequence; no parsed value of the model is empty
\* where None is possible and distinguished from it.
None == << >>

Range(s) == {s[i] : i \in DOMAIN s}

(* ------------------------------------------------------------------ *)
(* Numerals: the decimal literals occurring in the texts and filters,   *)
(* float() of each in hundredths.                                       *)
(* ------------------------------------------------------------------ *)
NumVal ==
    [t \in {"3", "5", "7", "10", "15", "20", "42.50", "150", "200"} |->
        CASE t = "3" -> 300
          [] t = "5" -> 500
          [] t = "7" -> 700
          [] t = "10" -> 1000
          [] t = "15" -> 1500
          [] t = "20" -> 2000
          [] t = "42.50" -> 4250
          [] t = "150" -> 15000
          [] t = "200" -> 20000]

IsNum(t) == t \in DOMAIN NumVal

\* `sub in text` of Python, on token sequences.
Contains(text, sub) ==
    \E i \in 0..(Len(text) - Len(sub)) :
        \A j \in 1..Len(sub) : text[i + j] = sub[j]

\* min of a non-empty set of integers
Least(S) == CHOOSE x \in S : \A y \in S : x <= y

Compare(operator, a, b) ==
    CASE operator = ">"  -> a > b
      [] operator = "<"  -> a < b
      [] operator = ">=" -> a >= b
      [] operator = "<=" -> a <= b

\* Mutant: the sign is kept.
AbsSigned(x) == x

Abs(x) == IF x < 0 THEN -x ELSE x

(* ------------------------------------------------------------------ *)
(* check_condition, evaluate_filter                                     *)
(* ------------------------------------------------------------------ *)

\* re.search(r'TIMER\s*(\d+\.?\d*)\s*min', post_text): positions of a match
TimerMatches(text) ==
    {i \in 1..(Len(text) - 2) :
        text[i] = "TIMER" /\ IsNum(text[i + 1]) /\ text[i + 2] = "min"}

\* re.search(rf'{key}[\s:]*([-]?\d+\.?\d*)\s*(%|s)?', post_text): a match is
\* <<start, position of the number, sign>>; key, any run of ":" tokens, an
\* optional "-" and a numeral.
KeyMatches(text, key) ==
    {m \in (1..Len(text)) \X (1..Len(text)) \X {1, -1} :
        /\ m[1] + Len(key) <= m[2]
        /\ \A j \in 1..Len(key) : text[m[1] + j - 1] = key[j]
        /\ IsNum(text[m[2]])
        /\ LET sgn == IF m[3] = -1 THEN 1 ELSE 0
           IN  /\ m[2] - sgn >= m[1] + Len(key)
               /\ (m[3] = -1) <=> (m[2] - 1 >= m[1] + Len(key) /\ text[m[2] - 1] = "-")
               /\ \A j \in (m[1] + Len(key))..(m[2] - 1 - sgn) : text[j] = ":"}

check_condition(post_text, condition) ==
    CASE condition.type = "text" ->
            Contains(post_text, condition.value)
      [] condition.type = "alternatives" ->
            \E k \in DOMAIN condition.values : Contains(post_text, condition.values[k])
      [] condition.type = "timer" ->
            IF TimerMatches(post_text) = {} THEN FALSE
            ELSE LET i == Least(TimerMatches(post_text))
                     post_value == NumVal[post_text[i + 1]]
                     target_value == NumVal[condition.value]
                 IN  Compare(condition.operator, post_value, target_value)
      [] condition.type = "condition" ->
            LET ms == KeyMatches(post_text, condition.key)
            IN  IF ms = {} THEN FALSE
                ELSE LET start == Least({m[1] : m \in ms})
                         m == CHOOSE x \in ms : x[1] = start
                         post_value == m[3] * NumVal[post_text[m[2]]]
                         unit == IF m[2] + 1 <= Len(post_text)
                                    /\ post_text[m[2] + 1] \in {"%", "s"}
                                 THEN post_text[m[2] + 1] ELSE ""
                         value == condition.value
                         expected_unit == IF value[Len(value)] \in {"%", "s"}
                                          THEN value[Len(value)] ELSE "None"
                         target_value == NumVal[value[1]]
                     IN  IF unit = "" /\ expected_unit = "None"
                         THEN Compare(condition.operator, Abs(post_value), target_value)
                         ELSE IF unit # expected_unit THEN FALSE
                         ELSE Compare(condition.operator, Abs(post_value), target_value)
      [] OTHER -> FALSE

\* Mutant: all() and any() change places.
evaluate_filter_swapped(post_text, conditions, all_must_match) ==
    IF conditions = << >> THEN TRUE
    ELSE LET results == [k \in DOMAIN conditions |-> check_condition(post_text, conditions[k])]
         IN  IF all_must_match
             THEN \E k \in DOMAIN results : results[k]
             ELSE \A k \in DOMAIN results : results[k]

evaluate_filter(post_text, conditions, all_must_match) ==
    IF conditions = << >> THEN TRUE
    ELSE LET results == [k \in DOMAIN conditions |-> check_condition(post_text, conditions[k])]
         IN  IF all_must_match
             THEN \A k \in DOMAIN results : results[k]
             ELSE \E k \in DOMAIN results : results[k]

\* json.dumps(cond) of a condition dict, as tokens (its leading part, the
\* "type" entry): every key and every string value is written between
\* double quotes.
json_dumps(cond) ==
    << "{", "\"", "type", "\"", ":", "\"", cond.type, "\"", "}" >>

\* line 670: any('"' in json.dumps(cond) for cond in data['filter'])
all_must_match_of(filter) ==
    \E k \in DOMAIN filter : "\"" \in Range(json_dumps(filter[k]))

(* ------------------------------------------------------------------ *)
(* parse_filter, parse_single_condition, parse_call_template            *)
(* A text the operator types is a token sequence too: "\n" is the line   *)
(* break, " " a blank between or around fragments, "\"" the double       *)
(* quote; inside a fragment the words, braces, operators, numerals and   *)
(* units are one token each.                                            *)
(* ------------------------------------------------------------------ *)
Operators == {">", "<", ">=", "<="}

Units == {"%", "s"}

Blank == {" ", "\n"}

\* str.split(sep)
RECURSIVE split(_, _)
split(s, sep) ==
    IF \A i \in DOMAIN s : s[i] # sep THEN << s >>
    ELSE LET i == Least({k \in DOMAIN s : s[k] = sep})
         IN  << SubSeq(s, 1, i - 1) >> \o split(SubSeq(s, i + 1, Len(s)), sep)

\* str.strip()
RECURSIVE strip(_)
strip(s) ==
    IF s = << >> THEN s
    ELSE IF Head(s) \in Blank THEN strip(Tail(s))
    ELSE IF s[Len(s)] \in Blank THEN strip(SubSeq(s, 1, Len(s) - 1))
    ELSE s

\* \s* from position i on: the first position that holds no blank
RECURSIVE SkipBlanks(_, _)
SkipBlanks(s, i) ==
    IF i <= Len(s) /\ s[i] \in Blank THEN SkipBlanks(s, i + 1) ELSE i

\* The positions i of "{" at which \{([><]=?)(\d+\.?\d*[%s]?)\} matches
\* (line 91), at least one token of key before it.
BraceMatches(condition) ==
    {i \in 2..(Len(condition) - 3) :
        /\ condition[i] = "{"
        /\ condition[i + 1] \in Operators
        /\ IsNum(condition[i + 2])
        /\ \/ condition[i + 3] = "}"
           \/ /\ i + 4 <= Len(condition)
              /\ condition[i + 3] \in Units
              /\ condition[i + 4] = "}"}

\* Mutant: the timer pattern is tried before the slash.
parse_single_condition_timer_first(condition) ==
    IF /\ Len(condition) >= 6
       /\ condition[1] = "TIMER" /\ condition[2] = "{"
       /\ condition[3] \in Operators /\ IsNum(condition[4])
       /\ condition[5] = "}"
       /\ SkipBlanks(condition, 6) <= Len(condition)
       /\ condition[SkipBlanks(condition, 6)] = "min"
    THEN [type |-> "timer", operator |-> condition[3], value |-> condition[4]]
    ELSE IF "/" \in Range(condition)
    THEN [type |-> "alternatives", values |-> split(condition, "/")]
    ELSE IF BraceMatches(condition) # {}
    THEN LET i == Least(BraceMatches(condition))
         IN  [type |-> "condition",
              key |-> strip(SubSeq(condition, 1, i - 1)),
              operator |-> condition[i + 1],
              value |-> IF condition[i + 3] = "}"
                        THEN << condition[i + 2] >>
                        ELSE << condition[i + 2], condition[i + 3] >>]
    ELSE [type |-> "text", value |-> condition]

parse_single_condition(condition) ==
    IF "/" \in Range(condition)
    THEN [type |-> "alternatives", values |-> split(condition, "/")]
    ELSE IF /\ Len(condition) >= 6
            /\ condition[1] = "TIMER" /\ condition[2] = "{"
            /\ condition[3] \in Operators /\ IsNum(condition[4])
            /\ condition[5] = "}"
            /\ SkipBlanks(condition, 6) <= Len(condition)
            /\ condition[SkipBlanks(condition, 6)] = "min"
    THEN [type |-> "timer", operator |-> condition[3], value |-> condition[4]]
    ELSE IF BraceMatches(condition) # {}
    THEN LET i == Least(BraceMatches(condition))
         IN  [type |-> "condition",
              key |-> strip(SubSeq(condition, 1, i - 1)),
              operator |-> condition[i + 1],
              value |-> IF condition[i + 3] = "}"
                        THEN << condition[i + 2] >>
                        ELSE << condition[i + 2], condition[i + 3] >>]
    ELSE [type |-> "text", value |-> condition]

\* re.findall(r'"([^"]+)"', filter_text) of line 54
RECURSIVE quoted_conditions(_)
quoted_conditions(s) ==
    LET qs == {i \in DOMAIN s : s[i] = "\""}
    IN  IF Cardinality(qs) < 2 THEN << >>
        ELSE LET i == Least(qs)
                 j == Least(qs \ {i})
             IN  IF j = i + 1
                 THEN quoted_conditions(SubSeq(s, j, Len(s)))
                 ELSE << SubSeq(s, i + 1, j - 1) >>
                          \o quoted_conditions(SubSeq(s, j + 1, Len(s)))

\* Mutant: with quotes in the text, the lines without a quote are parsed
\* too, after the quoted groups.
parse_filter_mixed(filter_text) ==
    LET found == quoted_conditions(filter_text)
        parts == split(filter_text, "\n")
        kept == SelectSeq([k \in DOMAIN parts |-> strip(parts[k])],
                          LAMBDA part : part # << >> /\ "\"" \notin Range(part))
    IN  [k \in DOMAIN found |-> parse_single_condition(found[k])]
            \o [k \in DOMAIN kept |-> parse_single_condition(kept[k])]

parse_filter(filter_text) ==
    IF "\"" \in Range(filter_text)
    THEN LET found == quoted_conditions(filter_text)
         IN  [k \in DOMAIN found |-> parse_single_condition(found[k])]
    ELSE LET parts == split(filter_text, "\n")
             kept == SelectSeq([k \in DOMAIN parts |-> strip(parts[k])],
                               LAMBDA part : part # << >>)
         IN  [k \in DOMAIN kept |-> parse_single_condition(kept[k])]

Tags == {"RED_CIRCLE", "GREEN_CIRCLE", "RED_SQUARE"}

\* call_template[current_type] = [] (line 206): a new key goes last, a
\* key already there keeps its place.
NewBranch(call_template, tag) ==
    IF \E k \in DOMAIN call_template : call_template[k].tag = tag
    THEN [k \in DOMAIN call_template |->
            IF call_template[k].tag = tag THEN [tag |-> tag, lines |-> << >>]
            ELSE call_template[k]]
    ELSE Append(call_template, [tag |-> tag, lines |-> << >>])

\* The loop of lines 201-208; the header line {IF IN POST <tag>} is the
\* two tokens "IF_IN_POST", <tag>.
RECURSIVE parse_call_lines(_, _, _)
parse_call_lines(lines, call_template, current_type) ==
    IF lines = << >> THEN call_template
    ELSE LET line == strip(Head(lines))
         IN  IF Len(line) >= 2 /\ line[1] = "IF_IN_POST" /\ line[2] \in Tags
             THEN parse_call_lines(Tail(lines), NewBranch(call_template, line[2]), line[2])
             ELSE IF line # << >> /\ current_type # ""
             THEN parse_call_lines(
                      Tail(lines),
                      [k \in DOMAIN call_template |->
                          IF call_template[k].tag = current_type
                          THEN [call_template[k] EXCEPT !.lines = Append(@, line)]
                          ELSE call_template[k]],
                      current_type)
             ELSE parse_call_lines(Tail(lines), call_template, current_type)

parse_call_template(template_text) ==
    parse_call_lines(split(strip(template_text), "\n"), << >>, "")

(* ------------------------------------------------------------------ *)
(* format_call_message                                                  *)
(* A parsed call template is the ordered dict of parse_call_template:   *)
(* a sequence of branches [tag, lines], each line a token sequence; a   *)
(* placeholder {Name} is one token.                                     *)
(* ------------------------------------------------------------------ *)
PlaceholderTokens == {"{Price}", "{ETA}", "{Now last price}", "{Volume}"}

\* re.findall(r'\{([^}]+)\}', line)
placeholders_of(lines) ==
    {t \in PlaceholderTokens : \E k \in DOMAIN lines : t \in Range(lines[k])}

\* the number after an optional "$": \s*\$?(<number>)
AfterLabel(text, i) ==
    IF i + 1 <= Len(text) /\ text[i + 1] = "$" THEN i + 2 ELSE i + 1

\* extraction_patterns (lines 236-241) and re.search(pattern, post_text)
extract_value(placeholder, post_text) ==
    LET label == CASE placeholder = "{Now last price}" -> "Now last price:"
                   [] placeholder = "{Price}" -> "Price:"
                   [] placeholder = "{ETA}" -> "ETA:"
                   [] OTHER -> "no pattern"
        ok(i) ==
            /\ post_text[i] = label
            /\ AfterLabel(post_text, i) <= Len(post_text)
            /\ LET v == post_text[AfterLabel(post_text, i)]
               IN  CASE placeholder = "{Now last price}" -> IsNum(v)
                     \* \d+\.?\d+ needs two digits at least
                     [] placeholder = "{Price}" -> IsNum(v) /\ v \notin {"3", "5", "7"}
                     \* ETA:\s*(\d+m), no "$" allowed
                     [] placeholder = "{ETA}" ->
                            v \in {"15m"} /\ AfterLabel(post_text, i) = i + 1
                     [] OTHER -> FALSE
        hits == {i \in DOMAIN post_text : ok(i)}
    IN  IF label = "no pattern" \/ hits = {} THEN "N/A"
        ELSE post_text[AfterLabel(post_text, Least(hits))]

\* Mutant: the last tag of the template that occurs in the post is taken.
format_call_message_last_tag(post_text, call_template) ==
    IF call_template = None THEN None
    ELSE LET present == {k \in DOMAIN call_template :
                            Contains(post_text, << call_template[k].tag >>)}
         IN  IF present = {} THEN None
             ELSE LET last == CHOOSE k \in present : \A x \in present : x <= k
                      call_lines == call_template[last].lines
                      placeholders == placeholders_of(call_lines)
                  IN  IF call_lines = << >> THEN None
                      ELSE [k \in DOMAIN call_lines |->
                              [j \in DOMAIN call_lines[k] |->
                                  IF call_lines[k][j] \in placeholders
                                  THEN extract_value(call_lines[k][j], post_text)
                                  ELSE call_lines[k][j]]]

format_call_message(post_text, call_template) ==
    IF call_template = None THEN None
    ELSE LET present == {k \in DOMAIN call_template :
                            Contains(post_text, << call_template[k].tag >>)}
         IN  IF present = {} THEN None
             ELSE LET call_lines == call_template[Least(present)].lines
                      placeholders == placeholders_of(call_lines)
                  IN  IF call_lines = << >> THEN None
                      ELSE [k \in DOMAIN call_lines |->
                              [j \in DOMAIN call_lines[k] |->
                                  IF call_lines[k][j] \in placeholders
                                  THEN extract_value(call_lines[k][j], post_text)
                                  ELSE call_lines[k][j]]]

(* ------------------------------------------------------------------ *)
(* The content source and the channel store                             *)
(* ------------------------------------------------------------------ *)

\* A post is identified by its id; its plain text is what the channel page
\* shows for that id (fetch_posts, lines 310-321).
PostText(id) ==
    CASE id % 3 = 1 -> << "buy", "now", "RED_SQUARE", "Price:", "$", "42.50" >>
      [] id % 3 = 2 -> << "no", "match" >>
      [] OTHER      -> << "sell", "now", "TIMER", "3", "min" >>

\* post_data['url'] (line 319)
PostUrl(channel, id) == << "https://t.me", channel, id >>

\* What fetch_posts can return for a page: the posts found, in page order,
\* each id once.
Batches ==
    UNION {{b \in [1..n -> PostIds] : \A i, j \in 1..n : i # j => b[i] # b[j]} :
              n \in 0..MaxId}

\* fetch_posts (lines 267-332): the list of posts, or [] after a request or
\* parse error (lines 327-332).
fetch_posts_results ==
    {[ok |-> TRUE, posts |-> b] : b \in Batches} \cup {[ok |-> FALSE, posts |-> << >>]}

\* Filters as parse_filter stores them.
FilterAlt == << [type |-> "alternatives", values |-> << << "buy" >>, << "sell" >> >>] >>
FilterTwo == << [type |-> "text", value |-> << "buy" >>],
                [type |-> "text", value |-> << "now" >>] >>
FilterNone == << >>

\* A call template as parse_call_template stores it.
TemplateShort ==
    << [tag |-> "RED_SQUARE",
        lines |-> << << "SHORT" >>, << "ENTRY:", "{Price}" >>, << "Duration:", "{ETA}" >> >>] >>

\* One record of channels.json (add_channel, line 472, then the filter and
\* the template set by receive_filter_or_call).
ChannelRecord(name, filter, template) ==
    [name |-> name, filter |-> filter, last_post_id |-> 0, call_template |-> template]

\* The stores the operator can have set up before polling starts: two
\* channels, the second possibly still without a filter.
InitStores ==
    {<< ChannelRecord("@a", fa, ta), ChannelRecord("@b", fb, None) >> :
        fa \in {FilterAlt, FilterTwo}, ta \in {None, TemplateShort},
        fb \in {FilterNone, FilterAlt}}

(* ------------------------------------------------------------------ *)
(* State                                                                *)
(* ------------------------------------------------------------------ *)
VARIABLES
    disk,          \* channels.json: the ordered mapping, one record per channel
    channels,      \* poll_channels: the dict loaded at line 644
    pc,            \* poll_channels: where the job stands
    idx,           \* poll_channels: position of the for loop of line 647
    posts,         \* poll_channels: the fetched batch (ids, page order)
    last_post_id,  \* poll_channels: the watermark read at line 655
    queue,         \* poll_channels: what is left of sorted(new_posts)
    log,           \* what the current channel's cycle has done so far
    failed,        \* per channel: did its latest fetch fail, and in which tick
    prev,          \* history: per channel, its previous cycle (batch, save)
    delivered,     \* history: per channel and post, the cycles that delivered it
    user_data,     \* context.user_data of the operator's chat (lines 517, 539)
    commands,      \* the number of operator commands handled so far
    submitted,     \* a filter text the operator types (update.message.text)
    candidate,     \* the text of a post the submitted filter is tried on
    parsed,        \* parse_filter's result for the submitted text
    verdict,       \* evaluate_filter's result for the candidate post
    stage,         \* how far the submitted text has got; at the chat, the
                   \* handler that ran last
    all_must_match, \* evaluate_filter: the flag of a call (line 107)
    counted,       \* get_channel_stats: line 349's result for the candidate
    call_message,  \* format_call_message's result for the candidate post
    page,          \* the posts the channel's public page shows (lines 280-281)
    stats          \* get_channel_stats: the summary it returns

vars == << disk, channels, pc, idx, posts, last_post_id, queue, log, failed, prev,
           delivered, user_data, commands, submitted, candidate, parsed, verdict, stage,
           all_must_match, counted, call_message, page, stats >>

\* The operator's side: the pending /set_filter and /set_call, the count.
oper == << user_data, commands >>

\* The filter under trial.
trial == << submitted, candidate, parsed, verdict, stage >>

\* The variables of the poll job and the store.
poll == << disk, channels, pc, idx, posts, last_post_id, queue, log, failed >>

\* The history kept by SpecHistory (prev) and SpecDeliveries (delivered).
hist == << prev, delivered >>

\* The calls of the evaluator, the formatter and the weekly summary.
side == << all_must_match, counted, call_message, page, stats >>

\* What the poll job does not touch.
rest == << oper, trial, side >>

\* No /set_filter or /set_call is pending (user_data.get gives None).
NoChannel == ""

NoUserData == [setting_filter_for |-> NoChannel, setting_call_for |-> NoChannel]

ChannelNames == {"@a", "@b"}

\* The summary of a finished cycle kept for the channel's next one.
CycleSummary(l, ps) ==
    [ran |-> TRUE,
     fetch_ok |-> l[1].ok,
     posts |-> ps,
     saved |-> IF Len(l) >= 2 /\ l[2].op = "save"
               THEN (IF l[2].ok THEN "ok" ELSE "failed")
               ELSE "none"]

NoCycle == [ran |-> FALSE, fetch_ok |-> TRUE, posts |-> << >>, saved |-> "none"]

\* One more cycle has delivered the post.
OneMore(n) == IF n = "none" THEN "one" ELSE "many"

Event(op, id, ok, text) == [op |-> op, id |-> id, ok |-> ok, text |-> text]

\* load_channels (lines 28-39)
load_channels == disk

\* save_channels (lines 41-47): the store is taken at its interface, a save
\* either replaces the mapping or fails (open() raising) and leaves the file
\* as it was; the failure is logged and swallowed (lines 46-47), the caller
\* is not told.  A write that fails after open() has emptied the file is
\* not part of this model.
save_channels(chs, ok) == IF ok THEN chs ELSE disk

\* Mutant: the watermark itself counts as unseen (>= for >).
new_posts_inclusive(ps, last) == SelectSeq(ps, LAMBDA id : id >= last)

\* line 658
new_posts_of(ps, last) == SelectSeq(ps, LAMBDA id : id > last)

\* Mutant: the id of the last post of the page instead of the maximum.
max_post_id_last(ps) == ps[Len(ps)]

\* Mutant: the id of the first post of the page instead of the maximum.
max_post_id_first(ps) == ps[1]

\* line 663: max over the whole fetched batch
max_post_id_of(ps) == CHOOSE m \in Range(ps) : \A x \in Range(ps) : x <= m

\* sorted(new_posts, key=id) of line 668: a stable insertion sort
RECURSIVE Insert(_, _)
Insert(s, x) ==
    IF s = << >> THEN << x >>
    ELSE IF x < Head(s) THEN << x >> \o s
    ELSE << Head(s) >> \o Insert(Tail(s), x)

\* Mutant: the new posts are taken in page order.
sorted_not(s) == s

RECURSIVE sorted_by_id(_)
sorted_by_id(s) ==
    IF s = << >> THEN << >>
    ELSE Insert(sorted_by_id(SubSeq(s, 1, Len(s) - 1)), s[Len(s)])

\* lines 674-678: attribution, link and the call text when there is one
primary_message(data, id) ==
    [attribution |-> data.name,
     url |-> PostUrl(data.name, id),
     call |-> IF data.call_template # None
              THEN format_call_message(PostText(id), data.call_template)
              ELSE None,
     parse_mode |-> "HTML"]

\* Mutant: the fallback resends the formatted message.
fallback_with_call(data, id) ==
    [attribution |-> data.name,
     url |-> PostUrl(data.name, id),
     call |-> IF data.call_template # None
              THEN format_call_message(PostText(id), data.call_template)
              ELSE None,
     parse_mode |-> "none"]

\* line 690: attribution and link only
fallback_message(data, id) ==
    [attribution |-> data.name,
     url |-> PostUrl(data.name, id),
     call |-> None,
     parse_mode |-> "none"]

\* lines 670-671
passes(data, id) ==
    evaluate_filter(PostText(id), data.filter, all_must_match_of(data.filter))

\* get_channel_stats' result when there is nothing to count (lines 340-345)
NoStats == [total_posts |-> 0, filtered_posts |-> 0]

\* No call of the evaluator, the formatter or the summary has been made.
NoSide ==
    /\ all_must_match = FALSE
    /\ counted = FALSE
    /\ call_message = None
    /\ page = << >>
    /\ stats = NoStats

Init ==
    /\ disk \in InitStores
    /\ channels = << >>
    /\ pc = "idle"
    /\ idx = 0
    /\ posts = << >>
    /\ last_post_id = 0
    /\ queue = << >>
    /\ log = << >>
    /\ failed = [c \in ChannelNames |-> "no"]
    /\ prev = [c \in ChannelNames |-> NoCycle]
    /\ delivered = [c \in ChannelNames |-> [id \in PostIds |-> "none"]]
    /\ user_data = NoUserData
    /\ commands = 0
    /\ submitted = << >>
    /\ candidate = << >>
    /\ parsed = << >>
    /\ verdict = FALSE
    /\ stage = "off"
    /\ NoSide

(* ------------------------------------------------------------------ *)
(* poll_channels (lines 642-700)                                        *)
(* ------------------------------------------------------------------ *)

\* The job queue starts the job (line 716); line 644.
StartTick ==
    /\ pc = "idle"
    /\ channels' = load_channels
    /\ idx' = 0
    /\ pc' = "next"
    /\ posts' = << >>
    /\ last_post_id' = 0
    /\ queue' = << >>
    /\ log' = << >>
    /\ failed' = [c \in ChannelNames |-> IF failed[c] = "no" THEN "no" ELSE "last"]
    /\ UNCHANGED disk

\* Mutant: a channel whose fetch failed in the previous tick is passed over.
NextChannelSkipsFailed ==
    /\ pc = "next"
    /\ IF idx = Len(channels)
       THEN /\ pc' = "idle"
            /\ channels' = << >>
            /\ idx' = 0
       ELSE /\ idx' = idx + 1
            /\ pc' = IF \/ channels[idx + 1].filter = << >>
                        \/ failed[channels[idx + 1].name] = "last"
                     THEN "next" ELSE "fetch"
            /\ UNCHANGED channels
    /\ posts' = << >>
    /\ last_post_id' = 0
    /\ queue' = << >>
    /\ log' = << >>
    /\ UNCHANGED << disk, failed >>

\* Mutant: a channel without a filter is fetched like any other.
NextChannelFetchesAll ==
    /\ pc = "next"
    /\ IF idx = Len(channels)
       THEN /\ pc' = "idle"
            /\ channels' = << >>
            /\ idx' = 0
       ELSE /\ idx' = idx + 1
            /\ pc' = "fetch"
            /\ UNCHANGED channels
    /\ posts' = << >>
    /\ last_post_id' = 0
    /\ queue' = << >>
    /\ log' = << >>
    /\ UNCHANGED << disk, failed >>

\* Line 647, and lines 650-652: the next channel, skipped by `continue`
\* when it has no filter; line 700 after the last one.
NextChannel ==
    /\ pc = "next"
    /\ IF idx = Len(channels)
       THEN /\ pc' = "idle"
            /\ channels' = << >>
            /\ idx' = 0
       ELSE /\ idx' = idx + 1
            /\ pc' = IF channels[idx + 1].filter = << >> THEN "next" ELSE "fetch"
            /\ UNCHANGED channels
    /\ posts' = << >>
    /\ last_post_id' = 0
    /\ queue' = << >>
    /\ log' = << >>
    /\ UNCHANGED << disk, failed >>

\* Mutant: the watermark is advanced in memory and saved only after the
\* deliveries.
FetchSaveLater ==
    /\ pc = "fetch"
    /\ \E r \in fetch_posts_results :
        LET data == channels[idx]
            last == data.last_post_id
            new == new_posts_of(r.posts, last)
        IN  /\ posts' = r.posts
            /\ last_post_id' = last
            /\ failed' = [failed EXCEPT ![data.name] = IF r.ok THEN "no" ELSE "this"]
            /\ log' = << Event("fetch", 0, r.ok, None) >>
            /\ IF new = << >>
               THEN /\ pc' = "next"
                    /\ UNCHANGED << disk, channels, queue >>
               ELSE /\ channels' = [channels EXCEPT ![idx].last_post_id = max_post_id_of(r.posts)]
                    /\ queue' = sorted_by_id(new)
                    /\ pc' = "eval"
                    /\ UNCHANGED disk
    /\ UNCHANGED idx

\* Lines 654-666: fetch, select the unseen posts, advance the watermark
\* and save; `continue` when nothing is new.
Fetch ==
    /\ pc = "fetch"
    /\ \E r \in fetch_posts_results, stored \in BOOLEAN :
        LET data == channels[idx]
            last == data.last_post_id
            new == new_posts_of(r.posts, last)
        IN  /\ posts' = r.posts
            /\ last_post_id' = last
            /\ failed' = [failed EXCEPT ![data.name] = IF r.ok THEN "no" ELSE "this"]
            /\ IF new = << >>
               THEN /\ stored
                    /\ pc' = "next"
                    /\ log' = << Event("fetch", 0, r.ok, None) >>
                    /\ UNCHANGED << disk, channels, queue >>
               ELSE LET max_post_id == max_post_id_of(r.posts)
                        updated == [channels EXCEPT ![idx].last_post_id = max_post_id]
                    IN  /\ channels' = updated
                        /\ disk' = save_channels(updated, stored)
                        /\ queue' = sorted_by_id(new)
                        /\ pc' = "eval"
                        /\ log' = << Event("fetch", 0, r.ok, None),
                                     Event("save", max_post_id, stored, None) >>
    /\ UNCHANGED idx

\* Lines 668-671 and 693-694: the next post in id order and its filter.
Evaluate ==
    /\ pc = "eval"
    /\ IF queue = << >>
       THEN /\ pc' = "sleep"
            /\ UNCHANGED << queue, log >>
       ELSE LET id == Head(queue)
                pass == passes(channels[idx], id)
            IN  /\ log' = Append(log, Event("eval", id, pass, None))
                /\ IF pass
                   THEN pc' = "send" /\ UNCHANGED queue
                   ELSE pc' = "eval" /\ queue' = Tail(queue)
    /\ UNCHANGED << disk, channels, idx, posts, last_post_id, failed >>

\* Lines 673-687: the primary message; the sink accepts it or raises.
SendPrimary ==
    /\ pc = "send"
    /\ \E ok \in BOOLEAN :
        /\ log' = Append(log, Event("primary", Head(queue), ok,
                                    primary_message(channels[idx], Head(queue))))
        /\ IF ok
           THEN pc' = "eval" /\ queue' = Tail(queue)
           ELSE pc' = "fallback" /\ UNCHANGED queue
    /\ UNCHANGED << disk, channels, idx, posts, last_post_id, failed >>

\* Mutant: without the handler of lines 696-697 a failing fallback ends
\* the job.
SendFallbackUncaught ==
    /\ pc = "fallback"
    /\ \E ok \in BOOLEAN :
        /\ log' = Append(log, Event("fallback", Head(queue), ok,
                                    fallback_message(channels[idx], Head(queue))))
        /\ IF ok
           THEN pc' = "eval" /\ queue' = Tail(queue)
           ELSE pc' = "idle" /\ queue' = Tail(queue)
    /\ UNCHANGED << disk, channels, idx, posts, last_post_id, failed >>

\* Lines 688-692: the fallback message, sent from the except block; when
\* the sink raises again the exception leaves the loop (lines 696-697).
SendFallback ==
    /\ pc = "fallback"
    /\ \E ok \in BOOLEAN :
        /\ log' = Append(log, Event("fallback", Head(queue), ok,
                                    fallback_message(channels[idx], Head(queue))))
        /\ IF ok
           THEN pc' = "eval" /\ queue' = Tail(queue)
           ELSE pc' = "sleep" /\ queue' = Tail(queue)
    /\ UNCHANGED << disk, channels, idx, posts, last_post_id, failed >>

\* Line 699
Sleep ==
    /\ pc = "sleep"
    /\ pc' = "next"
    /\ UNCHANGED << disk, channels, idx, posts, last_post_id, queue, log, failed >>

(* ------------------------------------------------------------------ *)
(* The operator's commands (lines 454-593)                              *)
(* ------------------------------------------------------------------ *)

\* The handlers and the poll job are coroutines of one event loop: a
\* handler runs between two ticks or while the job is suspended in an
\* await that yields, the send_message of lines 679 and 688 or the sleep
\* of line 699.  fetch_posts awaits nothing and does not yield.  A handler
\* is not suspended between its load_channels and its save_channels.
Suspended == pc \in {"idle", "send", "fallback", "sleep"}

\* `channel in channels`
Has(chs, channel) == \E i \in DOMAIN chs : chs[i].name = channel

\* What the operator types after /set_filter and after /set_call.
OperatorFilters ==
    {<< "buy", "/", "sell" >>,
     << "\"", "buy", "\"", " ", "\"", "now", "\"" >>}

OperatorTemplates ==
    {<< "IF_IN_POST", "RED_SQUARE", "\n", "SHORT", "\n",
        "ENTRY:", "{Price}", "\n", "Duration:", "{ETA}" >>}

\* What none of the operator's handlers touches.
OperatorFrame ==
    /\ commands' = commands + 1
    /\ UNCHANGED << channels, pc, idx, posts, last_post_id, queue, log, failed, hist, side >>
    /\ UNCHANGED << submitted, candidate, parsed, verdict >>

\* add_channel (lines 454-475) for a channel not yet in the store.
AddChannel(channel) ==
    /\ Suspended /\ commands < MaxCommands
    /\ ~Has(load_channels, channel)
    /\ \E stored \in BOOLEAN :
          disk' = save_channels(Append(load_channels, ChannelRecord(channel, << >>, None)),
                                stored)
    /\ UNCHANGED user_data
    /\ OperatorFrame

\* remove_channel (lines 477-498) for a channel of the store.
RemoveChannel(channel) ==
    /\ Suspended /\ commands < MaxCommands
    /\ Has(load_channels, channel)
    /\ \E stored \in BOOLEAN :
          disk' = save_channels(SelectSeq(load_channels, LAMBDA r : r.name # channel),
                                stored)
    /\ UNCHANGED user_data
    /\ OperatorFrame

\* set_filter (lines 500-520) for a channel of the store.
SetFilter(channel) ==
    /\ Suspended /\ commands < MaxCommands
    /\ Has(load_channels, channel)
    /\ user_data' = [user_data EXCEPT !.setting_filter_for = channel]
    /\ UNCHANGED disk
    /\ OperatorFrame

\* set_call (lines 522-542) for a channel of the store.
SetCall(channel) ==
    /\ Suspended /\ commands < MaxCommands
    /\ Has(load_channels, channel)
    /\ user_data' = [user_data EXCEPT !.setting_call_for = channel]
    /\ UNCHANGED disk
    /\ OperatorFrame

\* receive_filter_or_call (lines 544-593) with a /set_filter or /set_call
\* pending.  channels[filter_channel] raises KeyError when the channel has
\* left the store, and a reply that raises ends the handler as well: in
\* both cases the pending entry of user_data is not popped.  stored: the
\* save of line 559 or 587 succeeds; replied: the replies and the summary
\* of lines 560-581 or 589 are sent.
ReceiveFilterOrCallWith(stored, replied) ==
    /\ Suspended /\ commands < MaxCommands
    /\ LET filter_channel == user_data.setting_filter_for
           call_channel == user_data.setting_call_for
           loaded == load_channels
       IN  /\ filter_channel # NoChannel \/ call_channel # NoChannel
           /\ IF filter_channel # NoChannel
              THEN IF ~Has(loaded, filter_channel)
                   THEN UNCHANGED << disk, user_data >>
                   ELSE \E text \in OperatorFilters :
                          /\ disk' = save_channels(
                                [i \in DOMAIN loaded |->
                                    IF loaded[i].name = filter_channel
                                    THEN [loaded[i] EXCEPT !.filter = parse_filter(strip(text))]
                                    ELSE loaded[i]],
                                stored)
                          /\ user_data' = IF replied
                                          THEN [user_data EXCEPT !.setting_filter_for = NoChannel]
                                          ELSE user_data
              ELSE IF ~Has(loaded, call_channel)
                   THEN UNCHANGED << disk, user_data >>
                   ELSE \E text \in OperatorTemplates :
                          /\ disk' = save_channels(
                                [i \in DOMAIN loaded |->
                                    IF loaded[i].name = call_channel
                                    THEN [loaded[i] EXCEPT
                                            !.call_template = parse_call_template(strip(text))]
                                    ELSE loaded[i]],
                                stored)
                          /\ user_data' = IF replied
                                          THEN [user_data EXCEPT !.setting_call_for = NoChannel]
                                          ELSE user_data
    /\ OperatorFrame

ReceiveFilterOrCall ==
    \E stored, replied \in BOOLEAN : ReceiveFilterOrCallWith(stored, replied)

(* ------------------------------------------------------------------ *)
(* Specifications                                                       *)
(* ------------------------------------------------------------------ *)

\* The poll job with the content source, the store and the sink as its
\* environment.
Next ==
    \/ StartTick /\ UNCHANGED << hist, rest >>
    \/ NextChannel /\ UNCHANGED << hist, rest >>
    \/ Fetch /\ UNCHANGED << hist, rest >>
    \/ Evaluate /\ UNCHANGED << hist, rest >>
    \/ SendPrimary /\ UNCHANGED << hist, rest >>
    \/ SendFallback /\ UNCHANGED << hist, rest >>
    \/ Sleep /\ UNCHANGED << hist, rest >>

Spec == Init /\ [][Next]_vars

\* The same job, with the previous cycle of each channel recorded: a
\* finished cycle is summarised when the loop leaves it.
RecordCycle ==
    /\ prev' = IF idx > 0 /\ log # << >>
               THEN [prev EXCEPT ![channels[idx].name] = CycleSummary(log, posts)]
               ELSE prev
    /\ UNCHANGED delivered

NextHistory ==
    \/ StartTick /\ UNCHANGED << hist, rest >>
    \/ NextChannel /\ RecordCycle /\ UNCHANGED rest
    \/ Fetch /\ UNCHANGED << hist, rest >>
    \/ Evaluate /\ UNCHANGED << hist, rest >>
    \/ SendPrimary /\ UNCHANGED << hist, rest >>
    \/ SendFallback /\ UNCHANGED << hist, rest >>
    \/ Sleep /\ UNCHANGED << hist, rest >>

\* One polled channel, the other one registered without a filter.
InitHistory ==
    /\ Init
    /\ disk[2].filter = FilterNone

SpecHistory == InitHistory /\ [][NextHistory]_vars

\* The same job, with the deliveries of each post counted over the cycles:
\* a delivery is counted when the sink accepts the message.
RecordDelivery ==
    /\ delivered' = IF log'[Len(log')].ok
                    THEN [delivered EXCEPT ![channels[idx].name][Head(queue)] = OneMore(@)]
                    ELSE delivered
    /\ UNCHANGED prev

NextDeliveries ==
    \/ StartTick /\ UNCHANGED << hist, rest >>
    \/ NextChannel /\ UNCHANGED << hist, rest >>
    \/ Fetch /\ UNCHANGED << hist, rest >>
    \/ Evaluate /\ UNCHANGED << hist, rest >>
    \/ SendPrimary /\ RecordDelivery /\ UNCHANGED rest
    \/ SendFallback /\ RecordDelivery /\ UNCHANGED rest
    \/ Sleep /\ UNCHANGED << hist, rest >>

SpecDeliveries == InitHistory /\ [][NextDeliveries]_vars

(* ------------------------------------------------------------------ *)
(* A submitted filter tried on a post                                   *)
(* ------------------------------------------------------------------ *)

\* A numeric condition as the operator types it: key{op threshold}, the
\* unit inside the braces ("in"), after them ("after", the form of the
\* /help text, line 409) or absent (unit "").
NumericFilter(key, op, threshold, unit, place) ==
    key \o << "{", op, threshold >>
        \o (IF unit # "" /\ place = "in" THEN << unit >> ELSE << >>)
        \o << "}" >>
        \o (IF unit # "" /\ place = "after" THEN << unit >> ELSE << >>)

\* The line of a post that reports a number: key: [-]value[unit].
NumericPost(key, sign, value, unit) ==
    key \o << ":" >>
        \o (IF sign = -1 THEN << "-" >> ELSE << >>)
        \o << value >>
        \o (IF unit # "" THEN << unit >> ELSE << >>)

Keys == {<< "Spread" >>, << "Align", "Time" >>}

Thresholds == {"10", "20", "150"}

Values == {"15", "200"}

NumericFilters ==
    {NumericFilter(key, op, t, u, place) :
        key \in Keys, op \in Operators, t \in Thresholds,
        u \in Units \cup {""}, place \in {"in", "after"}}

NumericPosts ==
    {NumericPost(key, sign, v, u) :
        key \in Keys, sign \in {1, -1}, v \in Values, u \in Units \cup {""}}

\* Two lines without quotes: a timer and alternatives.
TwoLines ==
    << "TIMER", "{", "<", "5", "}", " ", "min", "\n", "buy", "/", "sell" >>

\* Two quoted groups on one line (/help, line 415).
QuotedPair ==
    << "\"", "Spread", "{", ">", "10", "%", "}", "\"", " ",
       "\"", "Avg", "Align", "Time", "{", ">", "150", "}", "s", "\"" >>

\* The example full filter of /help (lines 421-425).
HelpExample == TwoLines \o << "\n" >> \o QuotedPair

\* A timer condition, and the same without its trailing "min".
TimerFragment == << "TIMER", "{", "<", "5", "}", " ", "min" >>

TimerWithoutMin == << "TIMER", "{", "<", "5", "}" >>

\* Fragments that fit neither the timer nor the numeric pattern: a
\* threshold that is no number, an operator that is none, no key before
\* the brace, a timer with a threshold that is no number.
MalformedFragments ==
    {<< "Spread", "{", ">", "abc", "}" >>,
     << "Spread", "{", "=", "10", "}" >>,
     << "{", ">", "10", "}" >>,
     << "TIMER", "{", "<", "x", "}", " ", "min" >>}

\* A fragment with a slash that would be a timer without it.
TimerOrSell == TimerFragment \o << "/", "sell" >>

FilterTexts ==
    NumericFilters \cup MalformedFragments \cup
    {TimerFragment, TimerWithoutMin, TimerOrSell} \cup
    {TwoLines, QuotedPair, HelpExample,
     << "buy", "\n", "now" >>,
     << "\"", "buy", "\"", " ", "\"", "now", "\"" >>,
     << " ", "sell", "\n", "\n", "\"", "buy", "\"", "\n" >>,
     << "sell", "\"", "buy", "\"", " ", "\"", "now" >>}

PostTexts ==
    NumericPosts \cup
    {<< "buy", "now", "TIMER", "3", "min" >>,
     << "sell", "TIMER", "7", "min" >>,
     << "buy" >>,
     << "no", "match" >>,
     << "Spread", ":", "-", "15", "%", "Avg", "Align", "Time", ":", "200" >>,
     << "Spread", ":", "15", "%", "Avg", "Align", "Time", ":", "200", "s" >>}

\* The operator has typed a filter; a post of the channel is at hand.
InitFilter ==
    /\ disk = << ChannelRecord("@a", << >>, None) >>
    /\ channels = << >>
    /\ pc = "idle"
    /\ idx = 0
    /\ posts = << >>
    /\ last_post_id = 0
    /\ queue = << >>
    /\ log = << >>
    /\ failed = [c \in ChannelNames |-> "no"]
    /\ prev = [c \in ChannelNames |-> NoCycle]
    /\ delivered = [c \in ChannelNames |-> [id \in PostIds |-> "none"]]
    /\ user_data = [NoUserData EXCEPT !.setting_filter_for = "@a"]
    /\ commands = 0
    /\ submitted \in FilterTexts
    /\ candidate \in PostTexts
    /\ parsed = << >>
    /\ verdict = FALSE
    /\ stage = "typed"
    /\ NoSide

\* Lines 554 and 558: the text is stripped and parsed.
SubmitFilter ==
    /\ stage = "typed"
    /\ parsed' = parse_filter(strip(submitted))
    /\ stage' = "parsed"
    /\ UNCHANGED << submitted, candidate, verdict >>

\* Lines 650 and 670-671: the poll job tries the stored filter on a post.
EvaluateCandidate ==
    /\ stage = "parsed"
    /\ parsed # << >>
    /\ verdict' = evaluate_filter(candidate, parsed, all_must_match_of(parsed))
    /\ stage' = "evaluated"
    /\ UNCHANGED << submitted, candidate, parsed >>

\* Line 349: the summary tries the stored filter on the same post.
CountCandidate ==
    /\ stage = "evaluated"
    /\ counted' = evaluate_filter(candidate, parsed, FALSE)
    /\ stage' = "counted"
    /\ UNCHANGED << submitted, candidate, parsed, verdict >>
    /\ UNCHANGED << all_must_match, call_message, page, stats >>

NextFilter ==
    \/ SubmitFilter /\ UNCHANGED << poll, hist, oper, side >>
    \/ EvaluateCandidate /\ UNCHANGED << poll, hist, oper, side >>
    \/ CountCandidate /\ UNCHANGED << poll, hist, oper >>

SpecFilter == InitFilter /\ [][NextFilter]_vars

\* The bot at rest: one channel without filter or template, no tick under
\* way, nothing pending.
QuietBot ==
    /\ disk = << ChannelRecord("@a", << >>, None) >>
    /\ channels = << >>
    /\ pc = "idle"
    /\ idx = 0
    /\ posts = << >>
    /\ last_post_id = 0
    /\ queue = << >>
    /\ log = << >>
    /\ failed = [c \in ChannelNames |-> "no"]
    /\ prev = [c \in ChannelNames |-> NoCycle]
    /\ delivered = [c \in ChannelNames |-> [id \in PostIds |-> "none"]]
    /\ user_data = NoUserData
    /\ commands = 0

\* The filters a channel can have: [] of add_channel (line 465) and what
\* parse_filter makes of a submitted text (line 558).
StoredFilters == {<< >>} \cup {parse_filter(strip(t)) : t \in FilterTexts}

\* A call evaluate_filter(post_text, conditions, all_must_match) is about
\* to be made.
InitEvaluate ==
    /\ QuietBot
    /\ submitted = << >>
    /\ candidate \in PostTexts
    /\ parsed \in StoredFilters
    /\ verdict = FALSE
    /\ stage = "parsed"
    /\ all_must_match \in BOOLEAN
    /\ counted = FALSE
    /\ call_message = None
    /\ page = << >>
    /\ stats = NoStats

\* Lines 107-123: the call returns.
CallEvaluate ==
    /\ stage = "parsed"
    /\ verdict' = evaluate_filter(candidate, parsed, all_must_match)
    /\ stage' = "evaluated"
    /\ UNCHANGED << submitted, candidate, parsed >>

NextEvaluate ==
    CallEvaluate /\ UNCHANGED << poll, hist, oper, side >>

SpecEvaluate == InitEvaluate /\ [][NextEvaluate]_vars

\* Template texts the operator can type after /set_call: one branch, two
\* branches with a repeated and an unregistered placeholder, a header
\* without lines before a second branch, no header at all, a tag declared
\* twice.
TemplateTexts ==
    {<< "IF_IN_POST", "RED_SQUARE", "\n", "SHORT", "\n",
        "ENTRY:", "{Price}", "\n", "Duration:", "{ETA}" >>,
     << "IF_IN_POST", "GREEN_CIRCLE", "\n", "LONG", "{Price}", "to", "{Price}", "\n",
        "IF_IN_POST", "RED_CIRCLE", "\n", "EXIT", "{Now last price}", "\n",
        "Vol", "{Volume}", "{Volume}" >>,
     << " ", "IF_IN_POST", "RED_SQUARE", "\n", "\n",
        "IF_IN_POST", "GREEN_CIRCLE", "\n", " ", "GO", "{Price}", " " >>,
     << "ENTRY:", "{Price}" >>,
     << "head", "\n", "IF_IN_POST", "RED_CIRCLE", "\n", "A", "{ETA}", "\n",
        "IF_IN_POST", "GREEN_CIRCLE", "\n", "B", "{ETA}", "\n",
        "IF_IN_POST", "RED_CIRCLE", "\n", "C", "{Price}", "{ETA}", "{Price}" >>}

\* Post texts: the tags a post carries and the values written in it.
CallPosts ==
    {marks \o body :
        marks \in {<< >>, << "RED_SQUARE" >>, << "GREEN_CIRCLE" >>,
                   << "RED_CIRCLE", "GREEN_CIRCLE" >>, << "GREEN_CIRCLE", "RED_CIRCLE" >>,
                   << "GREEN_CIRCLE", "RED_SQUARE" >>},
        body \in {<< "Price:", "$", "42.50" >>,
                  << "Price:", "5" >>,
                  << "ETA:", "15m", "Price:", "150" >>,
                  << "Now last price:", "5", "ETA:", "$", "15m" >>,
                  << "hello" >>,
                  << "Price:", "5", "Price:", "$", "42.50", "Price:", "150" >>}}

\* The operator has typed a template after /set_call; a post is at hand.
InitCall ==
    /\ QuietBot
    /\ submitted \in TemplateTexts
    /\ candidate \in CallPosts
    /\ parsed = << >>
    /\ verdict = FALSE
    /\ stage = "typed"
    /\ NoSide

\* Lines 554 and 586: the text is stripped and parsed.
SubmitTemplate ==
    /\ stage = "typed"
    /\ parsed' = parse_call_template(strip(submitted))
    /\ stage' = "parsed"
    /\ UNCHANGED << submitted, candidate, verdict >>

\* Lines 675-676: the poll job formats a post that passed the filter.
FormatCandidate ==
    /\ stage = "parsed"
    /\ call_message' = IF parsed # None THEN format_call_message(candidate, parsed)
                       ELSE None
    /\ stage' = "formatted"
    /\ UNCHANGED << submitted, candidate, parsed, verdict >>
    /\ UNCHANGED << all_must_match, counted, page, stats >>

NextCall ==
    \/ SubmitTemplate /\ UNCHANGED << poll, hist, oper, side >>
    \/ FormatCandidate /\ UNCHANGED << poll, hist, oper >>

SpecCall == InitCall /\ [][NextCall]_vars

\* What the <time class="datetime"> element of a post on the page says
\* (lines 301-304): no such element or no datetime attribute; an ISO time
\* without an offset, before or within the last seven days; an ISO time
\* with an offset or a Z, before or within the last seven days.
Stamps == {"none", "naive_old", "naive_recent", "aware_old", "aware_recent"}

\* datetime.fromisoformat gives an aware datetime for a text with an
\* offset (the Z is turned into +00:00 at line 304).
Aware(stamp) == stamp \in {"aware_old", "aware_recent"}

\* The pages a channel can show: posts in page order, each with its text
\* and its time element.
Pages ==
    UNION {[1..n -> [text : {<< "buy", "now" >>, << "buy" >>, << "no", "match" >>},
                     stamp : Stamps]] : n \in 0..MaxPage}

\* fetch_posts(channel_name, since_time) with since_time given (lines
\* 267-332).  since_time is datetime.now() - timedelta(days=7), a naive
\* datetime (line 337): post_time < since_time of line 305 raises
\* TypeError for an aware post_time, the except clause of lines 330-332
\* returns []; a naive post_time before since_time skips the post; a post
\* without time is kept.  A failed request returns [] too (lines 327-329).
fetch_posts_since(shown, ok) ==
    IF ~ok THEN << >>
    ELSE IF \E k \in DOMAIN shown : Aware(shown[k].stamp) THEN << >>
    ELSE SelectSeq(shown, LAMBDA post : post.stamp # "naive_old")

\* get_channel_stats (lines 335-370): total_posts and filtered_posts
get_channel_stats(shown, filters, ok) ==
    LET fetched == fetch_posts_since(shown, ok)
    IN  IF fetched = << >> THEN NoStats
        ELSE [total_posts |-> Len(fetched),
              filtered_posts |->
                  Cardinality({k \in DOMAIN fetched :
                                  evaluate_filter(fetched[k].text, filters, FALSE)})]

\* The weekly summary is due for a channel with a stored filter.
InitStats ==
    /\ QuietBot
    /\ submitted = << >>
    /\ candidate = << >>
    /\ parsed \in {FilterNone, FilterTwo, FilterAlt}
    /\ verdict = FALSE
    /\ stage = "due"
    /\ all_must_match = FALSE
    /\ counted = FALSE
    /\ call_message = None
    /\ page \in Pages
    /\ stats = NoStats

\* weekly_stats, line 627: the summary of one channel is computed.
GetChannelStats ==
    /\ stage = "due"
    /\ \E ok \in BOOLEAN :
          /\ stats' = get_channel_stats(page, parsed, ok)
          /\ stage' = IF ok THEN "summed" ELSE "request failed"
    /\ UNCHANGED << submitted, candidate, parsed, verdict >>
    /\ UNCHANGED << all_must_match, counted, call_message, page >>

NextStats ==
    GetChannelStats /\ UNCHANGED << poll, hist, oper >>

SpecStats == InitStats /\ [][NextStats]_vars

\* The poll job and the operator at the chat.
NextOperator ==
    \/ StartTick /\ UNCHANGED << hist, rest >>
    \/ NextChannel /\ UNCHANGED << hist, rest >>
    \/ Fetch /\ UNCHANGED << hist, rest >>
    \/ Evaluate /\ UNCHANGED << hist, rest >>
    \/ SendPrimary /\ UNCHANGED << hist, rest >>
    \/ SendFallback /\ UNCHANGED << hist, rest >>
    \/ Sleep /\ UNCHANGED << hist, rest >>
    \/ \E channel \in ChannelNames : AddChannel(channel) /\ UNCHANGED stage
    \/ \E channel \in ChannelNames : RemoveChannel(channel) /\ UNCHANGED stage
    \/ \E channel \in ChannelNames : SetFilter(channel) /\ UNCHANGED stage
    \/ \E channel \in ChannelNames : SetCall(channel) /\ UNCHANGED stage
    \/ ReceiveFilterOrCall /\ UNCHANGED stage

SpecOperator == Init /\ [][NextOperator]_vars

\* The operator at the chat between two ticks, a /set_filter or a /set_call
\* possibly given already for a channel of the store (lines 517, 539).
InitChat ==
    /\ disk \in InitStores
    /\ channels = << >>
    /\ pc = "idle"
    /\ idx = 0
    /\ posts = << >>
    /\ last_post_id = 0
    /\ queue = << >>
    /\ log = << >>
    /\ failed = [c \in ChannelNames |-> "no"]
    /\ prev = [c \in ChannelNames |-> NoCycle]
    /\ delivered = [c \in ChannelNames |-> [id \in PostIds |-> "none"]]
    /\ commands = 0
    /\ submitted = << >>
    /\ candidate = << >>
    /\ parsed = << >>
    /\ verdict = FALSE
    /\ stage = "off"
    /\ NoSide
    /\ \E f, c \in {NoChannel} \cup ChannelNames :
          /\ f # NoChannel => Has(disk, f)
          /\ c # NoChannel => Has(disk, c)
          /\ user_data = [setting_filter_for |-> f, setting_call_for |-> c]

\* The handler that ran is kept in stage; for a text message, also
\* whether the store and the chat took what the handler gave them.
NextChat ==
    \/ \E channel \in ChannelNames : AddChannel(channel) /\ stage' = "add_channel"
    \/ \E channel \in ChannelNames : RemoveChannel(channel) /\ stage' = "remove_channel"
    \/ \E channel \in ChannelNames : SetFilter(channel) /\ stage' = "set_filter"
    \/ \E channel \in ChannelNames : SetCall(channel) /\ stage' = "set_call"
    \/ \E stored, replied \in BOOLEAN :
          /\ ReceiveFilterOrCallWith(stored, replied)
          /\ stage' = IF stored /\ replied THEN "receive_filter_or_call"
                      ELSE "receive_filter_or_call, store or chat failed"

SpecChat == InitChat /\ [][NextChat]_vars

(* ------------------------------------------------------------------ *)
(* Reading the state                                                    *)
(* ------------------------------------------------------------------ *)

\* The record channels.json holds for a channel.
Stored(name) == disk[CHOOSE i \in DOMAIN disk : disk[i].name = name]

\* The channel whose cycle the job is in, or has just left.
Current == channels[idx]

\* A cycle that fetched is under way or has just ended.
InCycle == idx > 0 /\ log # << >>

\* The channel's cycle is over: the loop body was left by `continue`
\* (line 661) or has reached the pause of line 699.
CycleEnded == InCycle /\ pc \in {"next", "sleep"}

HasNew(ps, w) == \E i \in DOMAIN ps : ps[i] > w

BatchMax(ps) == CHOOSE m \in Range(ps) : \A x \in Range(ps) : m >= x

Sends == {"primary", "fallback"}

\* The positions of the log with the given operations.
At(ops) == {k \in DOMAIN log : log[k].op \in ops}

(* ------------------------------------------------------------------ *)
(* C1                                                                   *)
(* ------------------------------------------------------------------ *)

\* C1 as stated: after a channel's cycle the persisted watermark is not
\* below its value before the cycle; it is the maximum id of the fetched
\* batch when the batch held a post above the old watermark, and is
\* unchanged otherwise.
C1_WatermarkIsBatchMax ==
    CycleEnded =>
        LET w == Stored(Current.name).last_post_id
        IN  /\ w >= last_post_id
            /\ HasNew(posts, last_post_id) => w = BatchMax(posts)
            /\ ~HasNew(posts, last_post_id) => w = last_post_id

\* C1 amended: after a channel's cycle the persisted watermark is not below
\* its value before the cycle; it is the maximum id of the fetched batch
\* when the batch held a post above the old watermark and the save of the
\* cycle succeeded, and is unchanged when nothing was new or the save
\* failed.
C1_WatermarkMonotone ==
    CycleEnded =>
        LET w == Stored(Current.name).last_post_id
            saved == \E k \in At({"save"}) : log[k].ok
        IN  /\ w >= last_post_id
            /\ (HasNew(posts, last_post_id) /\ saved) => w = BatchMax(posts)
            /\ (~HasNew(posts, last_post_id) \/ ~saved) => w = last_post_id

\* A cycle that started above 0, fetched old and new posts, the largest
\* not last on the page, and saved.
C1_Witness ==
    /\ CycleEnded
    /\ last_post_id > 0
    /\ \E i \in DOMAIN posts : posts[i] <= last_post_id
    /\ HasNew(posts, last_post_id)
    /\ posts[Len(posts)] # BatchMax(posts)
    /\ \E k \in At({"save"}) : log[k].ok
    /\ Stored(Current.name).last_post_id = BatchMax(posts)

(* ------------------------------------------------------------------ *)
(* C2                                                                   *)
(* ------------------------------------------------------------------ *)

\* C2: over the cycles of a channel that stays registered, no post is
\* delivered to the sink in more than one cycle.
C2_NoPostTwice ==
    \A c \in ChannelNames : \A id \in PostIds : delivered[c][id] # "many"

(* ------------------------------------------------------------------ *)
(* C3                                                                   *)
(* ------------------------------------------------------------------ *)

\* C3: within a channel's cycle every delivery attempt comes after the
\* write of the advanced watermark of that cycle: the save of the batch
\* maximum precedes the first message handed to the sink.
C3_SaveBeforeDelivery ==
    /\ \A k \in At(Sends) :
          \E j \in 1..(k - 1) :
              /\ log[j].op = "save"
              /\ log[j].id = BatchMax(posts)
              /\ log[j].id >= log[k].id
    /\ pc \in {"send", "fallback"} => At({"save"}) # {}

\* A message has been handed to the sink after the save.
C3_Witness ==
    /\ At(Sends) # {}
    /\ \E j \in At({"save"}) : \A k \in At(Sends) : j < k

(* ------------------------------------------------------------------ *)
(* C4                                                                   *)
(* ------------------------------------------------------------------ *)

\* The ids of the messages the sink accepted as primary messages, in the
\* order of their delivery.
DeliveredIds ==
    LET ks == SelectSeq([k \in DOMAIN log |-> k],
                        LAMBDA k : log[k].op = "primary" /\ log[k].ok)
    IN  [n \in DOMAIN ks |-> log[ks[n]].id]

\* C4: no post at or below the watermark of the cycle's start and no post
\* failing the filter is ever handed to the sink; and when every delivery
\* of the cycle succeeded, the delivered posts are exactly the fetched
\* posts above that watermark that pass the filter, each once, in
\* strictly ascending id order.
C4_DeliveredInOrder ==
    /\ \A k \in At(Sends) :
          /\ log[k].id \in Range(posts)
          /\ log[k].id > last_post_id
          /\ passes(Current, log[k].id)
    /\ (pc = "sleep" /\ \A k \in At(Sends) : log[k].ok) =>
          /\ \A n \in 1..(Len(DeliveredIds) - 1) : DeliveredIds[n] < DeliveredIds[n + 1]
          /\ Range(DeliveredIds) =
                {id \in Range(posts) : id > last_post_id /\ passes(Current, id)}

\* A finished cycle without a delivery failure whose page listed the posts
\* in descending order, one of them failing the filter, two delivered.
C4_Witness ==
    /\ pc = "sleep"
    /\ \A k \in At(Sends) : log[k].ok
    /\ Len(posts) >= 3
    /\ \A i \in 1..(Len(posts) - 1) : posts[i] > posts[i + 1]
    /\ \E k \in At({"eval"}) : ~log[k].ok
    /\ Len(DeliveredIds) >= 2

(* ------------------------------------------------------------------ *)
(* C5                                                                   *)
(* ------------------------------------------------------------------ *)

\* The channel's previous cycle fetched the batch this cycle fetched.
SameBatchAgain ==
    /\ InCycle
    /\ prev[Current.name].ran
    /\ prev[Current.name].posts = posts

\* This cycle has written no watermark and handed nothing to the sink.
NoEffect ==
    /\ At({"save"} \cup Sends) = {}
    /\ Stored(Current.name).last_post_id = last_post_id
    /\ Current.last_post_id = last_post_id

C6_NoDeliveryAfterFailedSave ==
    \A k \in At(Sends) :
        /\ \A j \in At({"save"}) : log[j].ok
        /\ Stored(Current.name).last_post_id >= log[k].id

(* ------------------------------------------------------------------ *)
(* C7                                                                   *)
(* ------------------------------------------------------------------ *)

\* C7: a post whose primary message and fallback both fail is dropped
\* without ending the cycle: when the channel's cycle reaches its end,
\* every new post has been evaluated, and handed to the sink when it passed
\* the filter (stated for the cycles whose save succeeded).
C7_RemainingStillEvaluated ==
    (pc = "sleep" /\ \A j \in At({"save"}) : log[j].ok) =>
        \A id \in Range(posts) :
            id > last_post_id =>
                \E k \in At({"eval"}) :
                    /\ log[k].id = id
                    /\ log[k].ok => \E j \in At({"primary"}) : log[j].id = id

(* ------------------------------------------------------------------ *)
(* C8                                                                   *)
(* ------------------------------------------------------------------ *)

\* C8: a failed primary message is followed by one fallback attempt for
\* the same post, carrying the channel attribution and the post link and
\* no call text; a primary message the sink accepted is followed by none;
\* no message of a post is attempted twice.
C8_OneFallback ==
    /\ \A k \in At({"primary"}) :
          IF log[k].ok
          THEN k = Len(log) \/ log[k + 1].op # "fallback"
          ELSE IF k = Len(log)
               THEN pc = "fallback" /\ Head(queue) = log[k].id
               ELSE /\ log[k + 1].op = "fallback"
                    /\ log[k + 1].id = log[k].id
                    /\ log[k + 1].text.attribution = Current.name
                    /\ log[k + 1].text.url = PostUrl(Current.name, log[k].id)
                    /\ log[k + 1].text.call = None
    /\ \A k \in At({"fallback"}) :
          k > 1 /\ log[k - 1].op = "primary" /\ ~log[k - 1].ok /\ log[k - 1].id = log[k].id
    /\ \A k1, k2 \in At(Sends) :
          (log[k1].id = log[k2].id /\ log[k1].op = log[k2].op) => k1 = k2
    /\ pc = "fallback" => log[Len(log)].op = "primary" /\ ~log[Len(log)].ok

\* A primary message with call text failed and its fallback was sent.
C8_Witness ==
    \E k \in At({"fallback"}) :
        /\ log[k - 1].text.call # None
        /\ log[k].text.call = None
        /\ log[k].ok

(* ------------------------------------------------------------------ *)
(* C9                                                                   *)
(* ------------------------------------------------------------------ *)

\* The step is a failure of the fetch, of the save or of a delivery.
ErrorStep ==
    \E k \in DOMAIN log' :
        /\ k > Len(log)
        /\ log'[k].op \in {"fetch", "save", "primary", "fallback"}
        /\ ~log'[k].ok

\* C9: a failure in one channel's cycle leaves the records of all other
\* channels in the store and in the job as they were and does not end the
\* tick; the loop takes every channel of the tick in turn, fetching those
\* with a filter, and the tick ends only after the last one.
C9_ErrorsIsolated ==
    [][ /\ ErrorStep =>
            /\ Len(disk') = Len(disk)
            /\ \A i \in DOMAIN disk : disk[i].name # Current.name => disk'[i] = disk[i]
            /\ Len(channels') = Len(channels)
            /\ \A i \in DOMAIN channels : i # idx => channels'[i] = channels[i]
            /\ idx' = idx
            /\ pc' # "idle"
        /\ (pc = "next" /\ idx < Len(channels)) =>
            /\ idx' = idx + 1
            /\ channels[idx + 1].filter # << >> => pc' = "fetch"
        /\ (pc # "idle" /\ pc' = "idle") => idx = Len(channels)
      ]_vars

\* The second channel is being delivered in a tick in which the first
\* channel's fetch failed.
C9_Witness ==
    /\ idx = 2
    /\ pc = "send"
    /\ failed[channels[1].name] = "this"

(* ------------------------------------------------------------------ *)
(* C10                                                                  *)
(* ------------------------------------------------------------------ *)

\* C10: a cycle whose fetch failed ends at once, with one fetch, no save
\* and no delivery, and the watermark as it was; and a channel whose fetch
\* failed in a tick has been fetched again when the next tick ends.
C10_FetchFailureAborts ==
    /\ (InCycle /\ ~log[1].ok) =>
          /\ Len(log) = 1
          /\ pc = "next"
          /\ queue = << >>
          /\ Stored(Current.name).last_post_id = last_post_id
          /\ Current.last_post_id = last_post_id
    /\ Cardinality(At({"fetch"})) <= 1
    /\ pc = "idle" => \A c \in ChannelNames : failed[c] # "last"

\* The channel's fetch failed in the previous tick and the job is about to
\* fetch it in this one.
C10_Witness ==
    /\ pc = "fetch"
    /\ failed[Current.name] = "last"

(* ------------------------------------------------------------------ *)
(* C11                                                                  *)
(* ------------------------------------------------------------------ *)

\* C11: the step that takes up a channel without a filter passes it over
\* without a fetch, and the step that fetches a batch with no post above
\* the watermark ends the channel's cycle; both leave the store and the
\* loaded records (watermark, filter, template) as they were and hand
\* nothing to the sink.
C11_SkipAndNoNewAreIdle ==
    [][ /\ (pc = "next" /\ idx < Len(channels) /\ channels[idx + 1].filter = << >>) =>
            /\ pc' = "next"
            /\ idx' = idx + 1
            /\ log' = << >>
            /\ disk' = disk
            /\ channels' = channels
        /\ (pc = "fetch" /\ ~HasNew(posts', Current.last_post_id)) =>
            /\ pc' = "next"
            /\ Len(log') = 1 /\ log'[1].op = "fetch"
            /\ queue' = << >>
            /\ disk' = disk
            /\ channels' = channels
      ]_vars

\* A cycle that fetched a non-empty batch of old posts only has ended, and
\* the store holds the watermark, the filter and the template it held.
C11_Witness ==
    /\ InCycle
    /\ pc = "next"
    /\ log[1].ok
    /\ posts # << >>
    /\ last_post_id > 0
    /\ Stored(Current.name) = Current
    /\ Current.last_post_id = last_post_id

(* ------------------------------------------------------------------ *)
(* C12                                                                  *)
(* ------------------------------------------------------------------ *)

\* A record of the store without its watermark.
Config(r) == [name |-> r.name, filter |-> r.filter, call_template |-> r.call_template]

\* C12: whatever the operator has done while the poll job was suspended,
\* a step of the poll job that writes the store changes watermarks only: it
\* leaves the set of channels and every channel's filter and template as
\* the store held them.
C12_PollWritesWatermarkOnly ==
    [][ pc = "fetch" =>
            /\ Len(disk') = Len(disk)
            /\ \A i \in DOMAIN disk : Config(disk'[i]) = Config(disk[i])
      ]_vars

(* ------------------------------------------------------------------ *)
(* C14                                                                  *)
(* ------------------------------------------------------------------ *)

\* C14: within a tick the job leaves a channel only through the pause:
\* the step that ends a channel's processing, however it ended, is the
\* sleep between channels, and no channel is taken up and left in one
\* step.
C14_PauseBetweenChannels ==
    [][ /\ (idx > 0 /\ idx' = idx /\ pc # "next" /\ pc' = "next") => pc = "sleep"
        /\ (pc = "next" /\ idx' = idx + 1) => pc' # "next"
      ]_vars

(* ------------------------------------------------------------------ *)
(* C15                                                                  *)
(* ------------------------------------------------------------------ *)

\* The number of double quotes of a text.
QuoteCount(t) == Cardinality({i \in DOMAIN t : t[i] = "\""})

\* The results of the parsed conditions on the candidate post.
Results == [k \in DOMAIN parsed |-> check_condition(candidate, parsed[k])]

\* a op b, read off the operator sign.
Meets(a, op, b) ==
    \/ op = ">" /\ a > b
    \/ op = "<" /\ a < b
    \/ op = ">=" /\ a >= b
    \/ op = "<=" /\ a <= b

\* C15: the flag with which the poll job evaluates a filter is true when
\* the filter was typed as quoted groups and false when it was typed
\* without quotes: a post passes a quoted filter when all groups match and
\* an unquoted filter when at least one line matches.
C15_FlagFollowsQuotes ==
    stage = "evaluated" =>
        /\ QuoteCount(submitted) >= 2 =>
              /\ all_must_match_of(parsed)
              /\ verdict = \A k \in DOMAIN Results : Results[k]
        /\ QuoteCount(submitted) = 0 =>
              /\ ~all_must_match_of(parsed)
              /\ verdict = \E k \in DOMAIN Results : Results[k]

(* ------------------------------------------------------------------ *)
(* C16                                                                  *)
(* ------------------------------------------------------------------ *)

\* The position of the n-th double quote of a text.
NthQuote(t, n) ==
    CHOOSE p \in DOMAIN t :
        t[p] = "\"" /\ Cardinality({q \in 1..p : t[q] = "\""}) = n

\* What stands between the k-th pair of quotes.
GroupAt(t, k) == SubSeq(t, NthQuote(t, 2 * k - 1) + 1, NthQuote(t, 2 * k) - 1)

MeetsFragment(fragment) == check_condition(candidate, parse_single_condition(fragment))

\* C17: with the example full filter of /help a post is selected when it
\* has a timer below 5 minutes, or contains buy or sell, or meets both
\* quoted conditions.
C17_HelpExampleSelects ==
    (stage = "evaluated" /\ submitted = HelpExample) =>
        verdict = \/ MeetsFragment(<< "TIMER", "{", "<", "5", "}", " ", "min" >>)
                  \/ MeetsFragment(<< "buy", "/", "sell" >>)
                  \/ /\ MeetsFragment(GroupAt(QuotedPair, 1))
                     /\ MeetsFragment(GroupAt(QuotedPair, 2))

(* ------------------------------------------------------------------ *)
(* C18                                                                  *)
(* ------------------------------------------------------------------ *)

\* The key stands nowhere in the text.
Absent(key, text) ==
    \A i \in 1..(Len(text) - Len(key) + 1) : SubSeq(text, i, i + Len(key) - 1) # key

\* C18: a numeric condition is decided by the absolute value of the
\* post's number: with the same unit on both sides (or none on both) the
\* result is |v| op t, and it is false when the key is not in the post.
C18_NumericAbsolute ==
    stage = "evaluated" =>
        \A key \in Keys, op \in Operators, t \in Thresholds, u \in Units \cup {""} :
            submitted = NumericFilter(key, op, t, u, "in") =>
                /\ \A sign \in {1, -1}, v \in Values :
                      candidate = NumericPost(key, sign, v, u) =>
                          verdict = Meets(NumVal[v], op, NumVal[t])
                /\ Absent(key, candidate) => ~verdict

\* Spread: -15% has passed Spread{>10%}.
C18_Witness ==
    /\ stage = "evaluated"
    /\ submitted = NumericFilter(<< "Spread" >>, ">", "10", "%", "in")
    /\ candidate = NumericPost(<< "Spread" >>, -1, "15", "%")
    /\ verdict

(* ------------------------------------------------------------------ *)
(* C19                                                                  *)
(* ------------------------------------------------------------------ *)

\* C19: when the filter names a unit, inside the braces or after them as
\* in Align Time{>150}s, a post whose number carries another unit or none
\* fails the condition, whatever the numbers.
C19_UnitMismatchFails ==
    stage = "evaluated" =>
        \A key \in Keys, op \in Operators, t \in Thresholds, u \in Units,
           place \in {"in", "after"} :
            submitted = NumericFilter(key, op, t, u, place) =>
                \A sign \in {1, -1}, v \in Values, pu \in (Units \cup {""}) \ {u} :
                    candidate = NumericPost(key, sign, v, pu) => ~verdict

(* ------------------------------------------------------------------ *)
(* C20                                                                  *)
(* ------------------------------------------------------------------ *)

\* C20: when the filter names no unit, the unit of the post's number is
\* ignored: the result is |v| op t as for the bare number.
C20_PostUnitIgnored ==
    stage = "evaluated" =>
        \A key \in Keys, op \in Operators, t \in Thresholds :
            submitted = NumericFilter(key, op, t, "", "in") =>
                \A sign \in {1, -1}, v \in Values, pu \in Units :
                    candidate = NumericPost(key, sign, v, pu) =>
                        verdict = Meets(NumVal[v], op, NumVal[t])

(* ------------------------------------------------------------------ *)
(* C21                                                                  *)
(* ------------------------------------------------------------------ *)

\* The submitted text is one fragment: no quote and no line break.
OneFragment == "\"" \notin Range(submitted) /\ "\n" \notin Range(submitted)

\* The Text condition on the literal fragment.
TextOf(fragment) == [type |-> "text", value |-> fragment]

\* One fragment gives one condition, picked in the order slash, timer,
\* numeric: a fragment with a slash is alternatives even when it starts as
\* a timer, a timer is a timer though key{op number} fits it too, and a
\* numeric fragment gives its key, operator and threshold.
ParsedByPriority ==
    (stage \in {"parsed", "evaluated"} /\ OneFragment) =>
        /\ Len(parsed) = 1
        /\ "/" \in Range(submitted) => parsed[1].type = "alternatives"
        /\ submitted = TimerOrSell =>
              parsed[1].values = << TimerFragment, << "sell" >> >>
        /\ submitted = TimerFragment =>
              parsed[1] = [type |-> "timer", operator |-> "<", value |-> "5"]
        /\ \A key \in Keys, op \in Operators, t \in Thresholds, u \in Units \cup {""} :
              submitted = NumericFilter(key, op, t, u, "in") =>
                  parsed[1] = [type |-> "condition", key |-> key, operator |-> op,
                               value |-> IF u = "" THEN << t >> ELSE << t, u >>]

\* C21 as stated: the rules apply in priority order, every fragment gives
\* one condition, and a malformed timer or numeric fragment, a timer
\* without its trailing min among them, is the Text condition on the
\* literal fragment.
C21_MalformedIsText ==
    /\ ParsedByPriority
    /\ (stage \in {"parsed", "evaluated"}
            /\ submitted \in MalformedFragments \cup {TimerWithoutMin}) =>
          parsed = << TextOf(submitted) >>

\* C21 amended: the rules apply in priority order, every fragment gives
\* one condition, and a fragment that fits neither the timer nor the
\* numeric pattern is the Text condition on the literal fragment; a timer
\* without its trailing min fits the numeric pattern and is the Numeric
\* condition whose key is the timer glyph.
C21_ParserPriority ==
    /\ ParsedByPriority
    /\ (stage \in {"parsed", "evaluated"} /\ submitted \in MalformedFragments) =>
          parsed = << TextOf(submitted) >>
    /\ (stage \in {"parsed", "evaluated"} /\ submitted = TimerWithoutMin) =>
          parsed = << [type |-> "condition", key |-> << "TIMER" >>,
                       operator |-> "<", value |-> << "5" >>] >>

\* A timer with a threshold that is no number has been parsed as text.
C21_Witness ==
    /\ stage = "parsed"
    /\ submitted = << "TIMER", "{", "<", "x", "}", " ", "min" >>
    /\ parsed = << TextOf(submitted) >>

(* ------------------------------------------------------------------ *)
(* C22                                                                  *)
(* ------------------------------------------------------------------ *)
\* C22: evaluate_filter gives true for an empty condition list whatever
\* the text and the flag; for a non-empty list it gives the conjunction of
\* the conditions' results when all_must_match is set and their
\* disjunction otherwise.
C22_EmptyTrueElseAndOr ==
    stage = "evaluated" =>
        /\ parsed = << >> => verdict
        /\ parsed # << >> /\ all_must_match =>
              (verdict <=> \A k \in DOMAIN parsed : Results[k])
        /\ parsed # << >> /\ ~all_must_match =>
              (verdict <=> \E k \in DOMAIN parsed : Results[k])

\* A two-condition list of which the post meets exactly one has been
\* evaluated.
C22_Witness ==
    /\ stage = "evaluated"
    /\ Len(parsed) >= 2
    /\ \E k \in DOMAIN parsed : Results[k]
    /\ \E k \in DOMAIN parsed : ~Results[k]

(* ------------------------------------------------------------------ *)
(* C23                                                                  *)
(* ------------------------------------------------------------------ *)
\* The branches of the template whose tag occurs in the post.
Occurring == {k \in DOMAIN parsed : \E i \in DOMAIN candidate : candidate[i] = parsed[k].tag}

\* The first of them in the template's order.
Selected == parsed[Least(Occurring)]

\* C23: the formatter takes the first tag of the template, in declared
\* order, that occurs in the post; it gives no output when no tag occurs or
\* the template is absent or empty; in the selected branch every occurrence
\* of every placeholder is replaced by the extracted value, or by N/A when
\* the placeholder has no registered pattern or the pattern does not
\* match, and no placeholder token remains in the output.
C23_FirstTagAllReplaced ==
    stage = "formatted" =>
        /\ parsed = << >> \/ Occurring = {} => call_message = None
        /\ Occurring # {} /\ Selected.lines # << >> =>
              /\ call_message # None
              /\ Len(call_message) = Len(Selected.lines)
              /\ \A k \in DOMAIN call_message :
                    /\ Len(call_message[k]) = Len(Selected.lines[k])
                    /\ \A j \in DOMAIN call_message[k] :
                          /\ call_message[k][j] \notin PlaceholderTokens
                          /\ Selected.lines[k][j] \notin PlaceholderTokens =>
                                call_message[k][j] = Selected.lines[k][j]
                          /\ Selected.lines[k][j] \in PlaceholderTokens =>
                                call_message[k][j] = extract_value(Selected.lines[k][j], candidate)
                          /\ Selected.lines[k][j] = "{Volume}" => call_message[k][j] = "N/A"
                          /\ Selected.lines[k][j] = "{Price}"
                             /\ (\A i \in DOMAIN candidate : candidate[i] # "Price:") =>
                                call_message[k][j] = "N/A"

\* A post with two tags of the template, the second of the template first
\* in the post, has been formatted with a value and an N/A.
C23_Witness ==
    /\ stage = "formatted"
    /\ Cardinality(Occurring) >= 2
    /\ candidate[1] = parsed[2].tag
    /\ call_message # None
    /\ \E k \in DOMAIN call_message : "N/A" \in Range(call_message[k])
    /\ \E k \in DOMAIN call_message : "42.50" \in Range(call_message[k])

(* ------------------------------------------------------------------ *)
(* C24                                                                  *)
(* ------------------------------------------------------------------ *)
\* The posts of the page whose time lies within the last seven days.
InWindow == {k \in DOMAIN page : page[k].stamp \in {"naive_recent", "aware_recent"}}

\* C24: the summary counts the posts of the trailing seven days: total is
\* the number of posts of the page whose time lies within the window,
\* filtered the number of those that pass the channel's filter, and
\* filtered is at most total.
C24_TotalIsWindow ==
    stage = "summed" =>
        /\ stats.total_posts = Cardinality(InWindow)
        /\ stats.filtered_posts =
              Cardinality({k \in InWindow : evaluate_filter(page[k].text, parsed, FALSE)})
        /\ stats.filtered_posts <= stats.total_posts

(* ------------------------------------------------------------------ *)
(* C25                                                                  *)
(* ------------------------------------------------------------------ *)
\* C25: the summary and the poll job agree on what passes a channel's
\* filter: a post is counted as filtered exactly when the poll job's
\* evaluation of the same filter on the same post lets it through.
C25_SummaryAgreesWithPoll ==
    stage = "counted" => (counted <=> verdict)

(* ------------------------------------------------------------------ *)
(* C26                                                                  *)
(* ------------------------------------------------------------------ *)
\* The job has just set the watermark (lines 663-665) and is about to
\* enter the delivery loop of line 668 with the whole of sorted(new_posts).
WatermarkJustSet == pc = "eval" /\ Len(log) = 2 /\ log[2].op = "save"

\* C26: whenever some fetched post lies above the watermark, the maximum
\* id of the whole fetched batch is the maximum id of the new posts, so
\* the watermark set from the batch maximum is not below its previous
\* value and not above the largest id handed to the delivery loop of the
\* cycle.
C26_BatchMaxIsNewMax ==
    WatermarkJustSet =>
        LET new == {posts[i] : i \in {i \in DOMAIN posts : posts[i] > last_post_id}}
            handed == Range(queue)
        IN  /\ new # {}
            /\ handed = new
            /\ \A x \in new : x <= Current.last_post_id
            /\ Current.last_post_id \in new
            /\ Current.last_post_id = log[2].id
            /\ Current.last_post_id >= last_post_id
            /\ \E x \in handed : Current.last_post_id <= x

\* The watermark was set in a cycle that started above 0 and fetched a
\* post at or below the old watermark together with two new ones, the
\* largest first on the page.
C26_Witness ==
    /\ WatermarkJustSet
    /\ last_post_id > 0
    /\ \E i \in DOMAIN posts : posts[i] <= last_post_id
    /\ Len(queue) >= 2
    /\ posts[1] = BatchMax(posts)

(* ------------------------------------------------------------------ *)
(* C27                                                                  *)
(* ------------------------------------------------------------------ *)
\* C27: whatever commands came before, a text message handled while a
\* submission is pending stores the parsed filter for the pending channel
\* (the filter submission first when both are pending), or else the parsed
\* template, and clears exactly that pending entry, also when the pending
\* channel has been removed in between: the entry does not stay set after
\* the text that answers it.
C27_PendingAnswered ==
    [][ stage' = "receive_filter_or_call" /\ commands' = commands + 1 =>
          LET filter_channel == user_data.setting_filter_for
              call_channel == user_data.setting_call_for
          IN  IF filter_channel # NoChannel
              THEN /\ user_data' = [user_data EXCEPT !.setting_filter_for = NoChannel]
                   /\ Has(disk, filter_channel) =>
                         \E i \in DOMAIN disk' :
                            /\ disk'[i].name = filter_channel
                            /\ disk'[i].filter \in
                                  {parse_filter(strip(t)) : t \in OperatorFilters}
              ELSE /\ user_data' = [user_data EXCEPT !.setting_call_for = NoChannel]
                   /\ Has(disk, call_channel) =>
                         \E i \in DOMAIN disk' :
                            /\ disk'[i].name = call_channel
                            /\ disk'[i].call_template \in
                                  {parse_call_template(strip(t)) : t \in OperatorTemplates}
      ]_vars

====
